---- MODULE Spec2Model ----
(***************************************************************************)
(* Model of bl_transform_utils (src/__init__.py): the module-level         *)
(* switches DEBUG, STRICT, LOGGER, LOG_ERRORS and the functions            *)
(* transform_matrix, transform_matrix_element, transform_matrix_flatten,   *)
(* transform_matrix_compose and transform_target_rotational_difference.    *)
(*                                                                         *)
(* Numbers are exact integers.  Rotations are the four rotations whose     *)
(* quaternions have integer components (identity and the half-turns about  *)
(* X, Y, Z); angles are counted in degrees, so math.pi is 180.             *)
(* A call is one step: it records the events the call performs, in order   *)
(* (host calls, log records, the final return or raise), and its outcome.  *)
(***************************************************************************)
EXTENDS Integers, Sequences, FiniteSets, TLC

VARIABLES DEBUG, STRICT, LOGGER, LOG_ERRORS, pc, call, outcome

vars == <<DEBUG, STRICT, LOGGER, LOG_ERRORS, pc, call, outcome>>

\* ---------------------------------------------------------------- bounds
\* Number of sample locations <<k, k+1, k+2>> and scales <<k+1, k+2, k+3>>
\* besides the origin and the unit scale.
MaxSample == 1

\* ------------------------------------------------------- constant tables
ROTATION_MODE_INDEX ==
    <<"AUTO", "XYZ", "XZY", "YXZ", "YZX", "ZXY", "ZYX", "QUATERNION",
      "SWING_TWIST_X", "SWING_TWIST_Y", "SWING_TWIST_Z">>

TRANSFORM_SPACE_INDEX == <<"WORLD_SPACE", "TRANSFORM_SPACE", "LOCAL_SPACE">>

TRANSFORM_TYPE_INDEX ==
    <<"LOC_X", "LOC_Y", "LOC_Z", "ROT_W", "ROT_X", "ROT_Y", "ROT_Z",
      "SCALE_X", "SCALE_Y", "SCALE_Z">>

Range(seq) == {seq[i] : i \in 1..Len(seq)}

\* ------------------------------------------------------- Python values
\* A Python value passed as a selector: its class and its str().
Str(s) == [t |-> "str", s |-> s]
IntValue == [t |-> "int", s |-> "5"]
ListValue == [t |-> "list", s |-> "[]"]

\* x in TABLE for a dict keyed by strings; hashing a list raises TypeError
\* before this is evaluated.
InTable(x, index) == x.t = "str" /\ x.s \in Range(index)

\* s[-1] for the strings of the model.
LastChar(s) ==
    CASE s \in {"LOC_X", "ROT_X", "SCALE_X", "SWING_TWIST_X", "YZX", "ZYX"} -> "X"
      [] s \in {"LOC_Y", "ROT_Y", "SCALE_Y", "SWING_TWIST_Y", "XZY", "ZXY"} -> "Y"
      [] s \in {"LOC_Z", "ROT_Z", "SCALE_Z", "SWING_TWIST_Z", "XYZ", "YXZ"} -> "Z"
      [] s = "ROT_W" -> "W"
      [] s = "AUTO" -> "O"
      [] s = "QUATERNION" -> "N"
      [] OTHER -> "E"   \* BOGUS_TYPE, BOGUS_MODE, BOGUS_SPACE

\* s.startswith(prefix) for the strings of the model.
StartsWith(s, prefix) ==
    CASE prefix = "LOC" -> s \in {"LOC_X", "LOC_Y", "LOC_Z"}
      [] prefix = "ROT" -> s \in {"ROT_W", "ROT_X", "ROT_Y", "ROT_Z"}
      [] prefix = "SCALE" -> s \in {"SCALE_X", "SCALE_Y", "SCALE_Z"}
      [] OTHER -> FALSE

\* len(s) for the strings of the model.
StrLen(s) ==
    CASE s \in {"XYZ", "XZY", "YXZ", "YZX", "ZXY", "ZYX"} -> 3
      [] s = "AUTO" -> 4
      [] s \in {"LOC_X", "LOC_Y", "LOC_Z", "ROT_W", "ROT_X", "ROT_Y", "ROT_Z"} -> 5
      [] s \in {"SCALE_X", "SCALE_Y", "SCALE_Z"} -> 7
      [] s \in {"QUATERNION", "BOGUS_MODE", "BOGUS_TYPE"} -> 10
      [] s \in {"WORLD_SPACE", "LOCAL_SPACE", "BOGUS_SPACE"} -> 11
      [] s \in {"SWING_TWIST_X", "SWING_TWIST_Y", "SWING_TWIST_Z"} -> 13
      [] OTHER -> 15   \* TRANSFORM_SPACE

\* s[:5] for the strings of the model.
Prefix5(s) ==
    CASE s = "WORLD_SPACE" -> "WORLD"
      [] s = "LOCAL_SPACE" -> "LOCAL"
      [] s = "TRANSFORM_SPACE" -> "TRANS"
      [] s = "BOGUS_SPACE" -> "BOGUS"
      [] OTHER -> s

\* 'XYZ'.index(axis) and 'WXYZ'.index(axis); -1 stands for the ValueError
\* str.index raises when the character is absent.
XYZ_index(axis) ==
    CASE axis = "X" -> 0 [] axis = "Y" -> 1 [] axis = "Z" -> 2 [] OTHER -> -1

WXYZ_index(axis) ==
    CASE axis = "W" -> 0 [] axis = "X" -> 1 [] axis = "Y" -> 2
      [] axis = "Z" -> 3 [] OTHER -> -1

\* ------------------------------------------------------------ numerics
\* math.pi, in the model's angle unit (degrees).
Pi == 180

Abs(n) == IF n < 0 THEN -n ELSE n

\* Exact integer square root (0 when n is not a perfect square).
ISqrt(n) == IF \E k \in 0..n : k * k = n THEN CHOOSE k \in 0..n : k * k = n ELSE 0

\* math.acos and math.asin on the values the model produces; outside
\* [-1, 1] Python raises ValueError (math domain error).
InTrigDomain(v) == v \in {-1, 0, 1}
Acos(v) == CASE v = 1 -> 0 [] v = 0 -> 90 [] OTHER -> 180
Asin(v) == CASE v = 1 -> 90 [] v = 0 -> 0 [] OTHER -> -90

\* atan2f, cosf and sinf on the values the model produces.
Atan2(y, x) ==
    CASE y = 0 /\ x >= 0 -> 0
      [] y = 0 /\ x < 0 -> 180
      [] y > 0 /\ x = 0 -> 90
      [] y < 0 /\ x = 0 -> -90
      [] y > 0 /\ x > 0 -> 45
      [] y > 0 /\ x < 0 -> 135
      [] y < 0 /\ x > 0 -> -45
      [] OTHER -> -135
Cos(a) == CASE a = 0 -> 1 [] a \in {180, -180} -> -1 [] OTHER -> 0
Sin(a) == CASE a = 90 -> 1 [] a = -90 -> -1 [] OTHER -> 0

\* mathutils.Matrix.Identity(n): a tuple of rows.
Identity(n) == [i \in 1..n |-> [j \in 1..n |-> IF i = j THEN 1 ELSE 0]]

\* a @ b for matrices.
RECURSIVE SumTo(_, _)
SumTo(f, n) == IF n = 0 THEN 0 ELSE f[n] + SumTo(f, n - 1)
MatMul(a, b) ==
    [i \in 1..Len(a) |-> [j \in 1..Len(b[1]) |->
        SumTo([k \in 1..Len(b) |-> a[i][k] * b[k][j]], Len(b))]]

\* Matrix.to_4x4() of a 3x3 matrix.
To4x4(m) ==
    [i \in 1..4 |-> [j \in 1..4 |->
        IF i <= 3 /\ j <= 3 THEN m[i][j] ELSE IF i = j THEN 1 ELSE 0]]

\* Quaternion.to_matrix() of a unit quaternion <<w, x, y, z>>.
QuatToMatrix(q) ==
    LET w == q[1] x == q[2] y == q[3] z == q[4]
    IN  << <<1 - 2 * (y * y + z * z), 2 * (x * y - w * z), 2 * (x * z + w * y)>>,
           <<2 * (x * y + w * z), 1 - 2 * (x * x + z * z), 2 * (y * z - w * x)>>,
           <<2 * (x * z - w * y), 2 * (y * z + w * x), 1 - 2 * (x * x + y * y)>> >>

\* Length of column j of the 3x3 block of m.
ColLength(m, j) == ISqrt(m[1][j] * m[1][j] + m[2][j] * m[2][j] + m[3][j] * m[3][j])

\* The 3x3 block of m with every column divided by its length.
Normalized3(m) ==
    [i \in 1..3 |-> [j \in 1..3 |-> m[i][j] \div ColLength(m, j)]]

\* Matrix.to_translation(): the first three rows of the last column.
to_translation(m) == <<m[1][4], m[2][4], m[3][4]>>

\* Matrix.to_scale() of a matrix that does not mirror: the column lengths.
to_scale(m) == <<ColLength(m, 1), ColLength(m, 2), ColLength(m, 3)>>

\* Matrix.to_quaternion(): the rotation of the normalized 3x3 block, by the
\* trace when it is positive and by the largest diagonal entry otherwise,
\* so that w >= 0.
to_quaternion(m) ==
    LET n == Normalized3(m)
        tr == 1 + n[1][1] + n[2][2] + n[3][3]
    IN  IF tr > 0 THEN
            LET w2 == ISqrt(tr)
            IN  <<w2 \div 2, (n[3][2] - n[2][3]) \div (2 * w2),
                  (n[1][3] - n[3][1]) \div (2 * w2), (n[2][1] - n[1][2]) \div (2 * w2)>>
        ELSE IF n[1][1] >= n[2][2] /\ n[1][1] >= n[3][3] THEN
            LET s == 2 * ISqrt(1 + n[1][1] - n[2][2] - n[3][3])
            IN  <<(n[3][2] - n[2][3]) \div s, s \div 4,
                  (n[2][1] + n[1][2]) \div s, (n[1][3] + n[3][1]) \div s>>
        ELSE IF n[2][2] >= n[3][3] THEN
            LET s == 2 * ISqrt(1 + n[2][2] - n[1][1] - n[3][3])
            IN  <<(n[1][3] - n[3][1]) \div s, (n[2][1] + n[1][2]) \div s,
                  s \div 4, (n[3][2] + n[2][3]) \div s>>
        ELSE
            LET s == 2 * ISqrt(1 + n[3][3] - n[1][1] - n[2][2])
            IN  <<(n[2][1] - n[1][2]) \div s, (n[1][3] + n[3][1]) \div s,
                  (n[3][2] + n[2][3]) \div s, s \div 4>>

\* Rotation matrix of one Euler angle about one axis.
AxisRotation(axis, a) ==
    LET c == Cos(a) s == Sin(a)
    IN  CASE axis = "X" -> << <<1, 0, 0>>, <<0, c, -s>>, <<0, s, c>> >>
          [] axis = "Y" -> << <<c, 0, s>>, <<0, 1, 0>>, <<-s, 0, c>> >>
          [] OTHER -> << <<c, -s, 0>>, <<s, c, 0>>, <<0, 0, 1>> >>

\* The axes of an Euler order, first applied first.
OrderAxes(order) ==
    CASE order = "XYZ" -> <<"X", "Y", "Z">> [] order = "XZY" -> <<"X", "Z", "Y">>
      [] order = "YXZ" -> <<"Y", "X", "Z">> [] order = "YZX" -> <<"Y", "Z", "X">>
      [] order = "ZXY" -> <<"Z", "X", "Y">> [] OTHER -> <<"Z", "Y", "X">>

\* Euler.to_matrix(): the rotations about the order's axes, composed.
EulerToMatrix(e, order) ==
    LET ax == OrderAxes(order)
        R(a) == AxisRotation(a, e[XYZ_index(a) + 1])
    IN  MatMul(R(ax[3]), MatMul(R(ax[2]), R(ax[1])))

\* The Euler angles the model's rotations decompose into.
EulerAngles == {0, 180}
EulerSize(e) == Abs(e[1]) + Abs(e[2]) + Abs(e[3])

\* Matrix.to_euler(order): of the Euler triples that give the normalized
\* rotation, the one with the smallest total angle.
to_euler(m, order) ==
    LET n == Normalized3(m)
        sols == {e \in EulerAngles \X EulerAngles \X EulerAngles :
                    EulerToMatrix(e, order) = n}
    IN  CHOOSE e \in sols : \A f \in sols : EulerSize(e) <= EulerSize(f)

\* Quaternion product a @ b.
QuatMul(a, b) ==
    <<a[1] * b[1] - a[2] * b[2] - a[3] * b[3] - a[4] * b[4],
      a[1] * b[2] + a[2] * b[1] + a[3] * b[4] - a[4] * b[3],
      a[1] * b[3] - a[2] * b[4] + a[3] * b[1] + a[4] * b[2],
      a[1] * b[4] + a[2] * b[3] - a[3] * b[2] + a[4] * b[1]>>

\* Quaternion.to_swing_twist(axis): <<swing quaternion, twist angle>>.
to_swing_twist(q, axis) ==
    LET i == XYZ_index(axis) + 2
        t == Atan2(q[i], q[1])
        twist_inv == [k \in 1..4 |->
                        IF k = 1 THEN Cos(t) ELSE IF k = i THEN -Sin(t) ELSE 0]
    IN  <<QuatMul(q, twist_inv), 2 * t>>

\* Quaternion.inverted(): the conjugate over the squared norm.
QuatInverted(q) ==
    LET d == q[1] * q[1] + q[2] * q[2] + q[3] * q[3] + q[4] * q[4]
    IN  <<q[1] \div d, (-q[2]) \div d, (-q[3]) \div d, (-q[4]) \div d>>

\* a * b for two mathutils quaternions: the element-wise product.
QuatStar(a, b) == <<a[1] * b[1], a[2] * b[2], a[3] * b[3], a[4] * b[4]>>

\* ------------------------------------------------------- calls' outcomes
NoMsg == [fn |-> "", arg |-> "", problem |-> "", value |-> "", options |-> <<>>]

Message(fn, arg, problem, value, options) ==
    [fn |-> fn, arg |-> arg, problem |-> problem, value |-> value, options |-> options]

Event(ev, name, msg) == [ev |-> ev, name |-> name, msg |-> msg]

HostCall(name) == Event("host", name, NoMsg)

\* The call raises exc with message msg after the events pre.
Raise(exc, msg, pre) ==
    [events |-> pre \o <<Event("raise", exc, msg)>>, status |-> "raise",
     exc |-> exc, msg |-> msg, ty |-> "none", num |-> 0, mat |-> <<>>]

\* The call returns a number, or a matrix or tuple, after the events pre.
ReturnNum(n, pre) ==
    [events |-> pre \o <<Event("return", "", NoMsg)>>, status |-> "return",
     exc |-> "", msg |-> NoMsg, ty |-> "num", num |-> n, mat |-> <<>>]

ReturnMat(ty, m, pre) ==
    [events |-> pre \o <<Event("return", "", NoMsg)>>, status |-> "return",
     exc |-> "", msg |-> NoMsg, ty |-> ty, num |-> 0, mat |-> m]

\* Validation found nothing to reject.
Pass ==
    [events |-> <<>>, status |-> "pass", exc |-> "", msg |-> NoMsg,
     ty |-> "none", num |-> 0, mat |-> <<>>]

\* Faulty variant: the record is written whenever a logger is set, whatever
\* LOG_ERRORS says.
LogError_AnyFlag(msg) ==
    IF LOGGER = "Logger" THEN <<Event("log", "error", msg)>> ELSE <<>>

\* if LOG_ERRORS and isinstance(LOGGER, logging.Logger): LOGGER.error(message)
LogError(msg) ==
    IF LOG_ERRORS /\ LOGGER = "Logger" THEN <<Event("log", "error", msg)>> ELSE <<>>

\* The validation blocks' three statements: build the message, log it when
\* logging is on, raise.
RaiseLogged(exc, msg) == Raise(exc, msg, LogError(msg))

\* ---------------------------------------------------- transform_matrix
\* bone.id_data.convert_space(pose_bone, matrix, from_space='POSE', to_space):
\* done by the host, from the armature's world matrix and the bone's rest.
convert_space(bone, matrix, to_space) ==
    IF to_space = "WORLD" THEN MatMul(bone.arm_world, matrix)
    ELSE MatMul(bone.rest_inv, matrix)

\* raise TypeError(message), logged: the value is not a str.
NotStr(fn, arg, x) ==
    RaiseLogged("TypeError", Message(fn, arg, "expected str", x.t, <<>>))

\* raise ValueError(message), logged: the value is not a key of the table.
NotFound(fn, arg, x, index) ==
    RaiseLogged("ValueError", Message(fn, arg, "not found", x.s, index))

\* A failed assert statement of the STRICT block.
AssertionFailed == Raise("AssertionError", NoMsg, <<>>)

\* Faulty variant: a null target short-cuts to the identity default before the
\* membership check.
MatrixValidation_NullFirst(strict, target, transform_space) ==
    IF ~DEBUG THEN Pass
    ELSE IF strict /\ target.kind \notin {"None", "Object", "PoseBone"} THEN
        AssertionFailed
    ELSE IF transform_space.t # "str" THEN
        NotStr("transform_matrix", "transform_space", transform_space)
    ELSE IF target.kind # "None"
            /\ ~InTable(transform_space, TRANSFORM_SPACE_INDEX) THEN
        NotFound("transform_matrix", "transform_space", transform_space,
                 TRANSFORM_SPACE_INDEX)
    ELSE Pass

\* Faulty variant: the membership check comes before the type check.
MatrixValidation_MembershipFirst(strict, target, transform_space) ==
    IF ~DEBUG THEN Pass
    ELSE IF strict /\ target.kind \notin {"None", "Object", "PoseBone"} THEN
        AssertionFailed
    ELSE IF ~InTable(transform_space, TRANSFORM_SPACE_INDEX) THEN
        NotFound("transform_matrix", "transform_space", transform_space,
                 TRANSFORM_SPACE_INDEX)
    ELSE IF transform_space.t # "str" THEN
        NotStr("transform_matrix", "transform_space", transform_space)
    ELSE Pass

\* The validation of transform_matrix (DEBUG block); strict is the value of
\* STRICT the call reads.
MatrixValidation(strict, target, transform_space) ==
    IF ~DEBUG THEN Pass
    ELSE IF strict /\ target.kind \notin {"None", "Object", "PoseBone"} THEN
        AssertionFailed
    ELSE IF transform_space.t # "str" THEN
        NotStr("transform_matrix", "transform_space", transform_space)
    ELSE IF ~InTable(transform_space, TRANSFORM_SPACE_INDEX) THEN
        NotFound("transform_matrix", "transform_space", transform_space,
                 TRANSFORM_SPACE_INDEX)
    ELSE Pass

\* The matrix transform_matrix selects for a pose bone.
BoneMatrix(target, transform_space) ==
    IF transform_space = Str("TRANSFORM_SPACE") THEN
        ReturnMat("Matrix", target.matrix_channel, <<>>)
    ELSE IF transform_space.t = "int" THEN
        Raise("TypeError", NoMsg, <<>>)          \* transform_space[:5] of an int
    ELSE IF transform_space.t = "str"
            /\ Prefix5(transform_space.s) \in {"LOCAL", "WORLD"} THEN
        ReturnMat("Matrix",
            convert_space(target, target.matrix, Prefix5(transform_space.s)),
            <<HostCall("convert_space")>>)
    ELSE ReturnMat("Matrix", Identity(4), <<>>)

\* Faulty variant: the world and local matrices are exchanged.
ObjectMatrix_Swapped(target, transform_space) ==
    IF transform_space = Str("TRANSFORM_SPACE") THEN
        ReturnMat("Matrix", target.matrix_basis, <<>>)
    ELSE IF transform_space = Str("WORLD_SPACE") THEN
        ReturnMat("Matrix", target.matrix_local, <<>>)
    ELSE IF transform_space = Str("LOCAL_SPACE") THEN
        ReturnMat("Matrix", target.matrix_world, <<>>)
    ELSE ReturnMat("Matrix", Identity(4), <<>>)

\* The matrix transform_matrix selects for an object.
ObjectMatrix(target, transform_space) ==
    IF transform_space = Str("TRANSFORM_SPACE") THEN
        ReturnMat("Matrix", target.matrix_basis, <<>>)
    ELSE IF transform_space = Str("WORLD_SPACE") THEN
        ReturnMat("Matrix", target.matrix_world, <<>>)
    ELSE IF transform_space = Str("LOCAL_SPACE") THEN
        ReturnMat("Matrix", target.matrix_local, <<>>)
    ELSE ReturnMat("Matrix", Identity(4), <<>>)

\* The body of transform_matrix, after the validation.
MatrixBody(target, transform_space) ==
    IF target.kind = "PoseBone" THEN BoneMatrix(target, transform_space)
    ELSE IF target.kind = "Object" THEN ObjectMatrix(target, transform_space)
    ELSE ReturnMat("Matrix", Identity(4), <<>>)

transform_matrix(target, transform_space) ==
    LET v == MatrixValidation(STRICT, target, transform_space)
    IN  IF v.status = "raise" THEN v ELSE MatrixBody(target, transform_space)

\* -------------------------------------------- transform_matrix_element
\* A matrix argument: its class and its rows (or, for a tuple, its entries).
NumRows(matrix) == Len(matrix.m)
NumCols(matrix) == Len(matrix.m[1])

\* The exception a host method raises for this argument, "" when it works.
HostError(matrix, name) ==
    IF matrix.cls # "Matrix" THEN "AttributeError"
    ELSE IF name = "to_translation" THEN
        IF NumRows(matrix) < 3 \/ NumCols(matrix) < 4 THEN "ValueError" ELSE ""
    ELSE IF name = "to_scale" THEN
        IF NumRows(matrix) < 3 \/ NumCols(matrix) < 3 THEN "ValueError" ELSE ""
    ELSE IF (NumRows(matrix) = 3 /\ NumCols(matrix) = 3)
            \/ (NumRows(matrix) = 4 /\ NumCols(matrix) = 4) THEN ""
    ELSE "ValueError"

\* raise ValueError(message), logged: len(matrix) is not 4.
Not4x4(matrix) ==
    RaiseLogged("ValueError",
        Message("transform_matrix_element", "matrix", "expected 4x4",
                ToString(NumRows(matrix)) \o "x" \o ToString(NumRows(matrix)), <<>>))

\* x not in TABLE for a list x: TypeError, unhashable type.
Unhashable == Raise("TypeError", NoMsg, <<>>)

\* Faulty variant: the component is checked before the matrix shape.
ElementValidation_TypeFirst(strict, matrix, transform_type, rotation_mode, driver) ==
    LET fn == "transform_matrix_element"
    IN  IF ~DEBUG THEN Pass
        ELSE IF strict /\ (matrix.cls # "Matrix" \/ transform_type.t # "str"
                           \/ rotation_mode.t # "str" \/ driver \notin BOOLEAN) THEN
            AssertionFailed
        ELSE IF transform_type.t = "list" THEN Unhashable
        ELSE IF ~InTable(transform_type, TRANSFORM_TYPE_INDEX) THEN
            NotFound(fn, "transform_type", transform_type, TRANSFORM_TYPE_INDEX)
        ELSE IF NumRows(matrix) # 4 THEN Not4x4(matrix)
        ELSE IF rotation_mode.t = "list" THEN Unhashable
        ELSE IF ~InTable(rotation_mode, ROTATION_MODE_INDEX) THEN
            NotFound(fn, "rotation_mode", rotation_mode, ROTATION_MODE_INDEX)
        ELSE Pass

\* Faulty variant: the membership checks run only when STRICT is on.
ElementValidation_StrictOnly(strict, matrix, transform_type, rotation_mode, driver) ==
    LET fn == "transform_matrix_element"
    IN  IF ~DEBUG THEN Pass
        ELSE IF strict /\ (matrix.cls # "Matrix" \/ transform_type.t # "str"
                           \/ rotation_mode.t # "str" \/ driver \notin BOOLEAN) THEN
            AssertionFailed
        ELSE IF NumRows(matrix) # 4 THEN Not4x4(matrix)
        ELSE IF transform_type.t = "list" THEN Unhashable
        ELSE IF strict /\ ~InTable(transform_type, TRANSFORM_TYPE_INDEX) THEN
            NotFound(fn, "transform_type", transform_type, TRANSFORM_TYPE_INDEX)
        ELSE IF rotation_mode.t = "list" THEN Unhashable
        ELSE IF strict /\ ~InTable(rotation_mode, ROTATION_MODE_INDEX) THEN
            NotFound(fn, "rotation_mode", rotation_mode, ROTATION_MODE_INDEX)
        ELSE Pass

\* The validation of transform_matrix_element (DEBUG block); strict is the
\* value of STRICT the call reads.
ElementValidation(strict, matrix, transform_type, rotation_mode, driver) ==
    LET fn == "transform_matrix_element"
    IN  IF ~DEBUG THEN Pass
        ELSE IF strict /\ (matrix.cls # "Matrix" \/ transform_type.t # "str"
                           \/ rotation_mode.t # "str" \/ driver \notin BOOLEAN) THEN
            AssertionFailed
        ELSE IF NumRows(matrix) # 4 THEN Not4x4(matrix)
        ELSE IF transform_type.t = "list" THEN Unhashable
        ELSE IF ~InTable(transform_type, TRANSFORM_TYPE_INDEX) THEN
            NotFound(fn, "transform_type", transform_type, TRANSFORM_TYPE_INDEX)
        ELSE IF rotation_mode.t = "list" THEN Unhashable
        ELSE IF ~InTable(rotation_mode, ROTATION_MODE_INDEX) THEN
            NotFound(fn, "rotation_mode", rotation_mode, ROTATION_MODE_INDEX)
        ELSE Pass

\* matrix.<name>(...)[index]: the host call, then the index lookup (index
\* -1: str.index found nothing and raised ValueError), then the subscript.
HostElement(matrix, name, vec, index) ==
    IF HostError(matrix, name) # "" THEN
        Raise(HostError(matrix, name), NoMsg, <<HostCall(name)>>)
    ELSE IF index < 0 THEN Raise("ValueError", NoMsg, <<HostCall(name)>>)
    ELSE ReturnNum(vec[index + 1], <<HostCall(name)>>)

\* Faulty variant: arcsin for the W component and arccos for the others.
SwingTwistElement_Swapped(q, axis, twist_axis, driver) ==
    LET pre == <<HostCall("to_quaternion"), HostCall("to_swing_twist")>>
        st == to_swing_twist(q, twist_axis)
        value == st[1][WXYZ_index(axis) + 1]
    IN  IF XYZ_index(twist_axis) < 0 THEN Raise("ValueError", NoMsg, pre)
        ELSE IF axis = twist_axis THEN ReturnNum(st[2], pre)
        ELSE IF WXYZ_index(axis) < 0 THEN Raise("ValueError", NoMsg, pre)
        ELSE IF driver THEN
            IF ~InTrigDomain(value) THEN Raise("ValueError", NoMsg, pre)
            ELSE ReturnNum((IF axis = "W" THEN Asin(value) ELSE Acos(value)) * 2, pre)
        ELSE ReturnNum(value, pre)

\* The swing-twist branch once the quaternion q is known.
SwingTwistElement(q, axis, twist_axis, driver) ==
    LET pre == <<HostCall("to_quaternion"), HostCall("to_swing_twist")>>
        st == to_swing_twist(q, twist_axis)
        value == st[1][WXYZ_index(axis) + 1]
    IN  IF XYZ_index(twist_axis) < 0 THEN Raise("ValueError", NoMsg, pre)
        ELSE IF axis = twist_axis THEN ReturnNum(st[2], pre)
        ELSE IF WXYZ_index(axis) < 0 THEN Raise("ValueError", NoMsg, pre)
        ELSE IF driver THEN
            IF ~InTrigDomain(value) THEN Raise("ValueError", NoMsg, pre)
            ELSE ReturnNum((IF axis = "W" THEN Acos(value) ELSE Asin(value)) * 2, pre)
        ELSE ReturnNum(value, pre)

\* The rotation channels.
RotationElement(matrix, axis, rotation_mode, driver) ==
    IF rotation_mode = Str("AUTO") THEN
        IF axis = "W" THEN ReturnNum(0, <<>>)
        ELSE HostElement(matrix, "to_euler", to_euler(matrix.m, "XYZ"), XYZ_index(axis))
    ELSE IF rotation_mode.t = "int" THEN
        Raise("TypeError", NoMsg, <<>>)          \* len() of an int
    ELSE IF rotation_mode.t = "str" /\ StrLen(rotation_mode.s) = 3 THEN
        HostElement(matrix, "to_euler", to_euler(matrix.m, rotation_mode.s),
                    XYZ_index(axis))
    ELSE IF rotation_mode = Str("QUATERNION") THEN
        HostElement(matrix, "to_quaternion", to_quaternion(matrix.m), WXYZ_index(axis))
    ELSE IF rotation_mode.t = "list" THEN
        Raise("IndexError", NoMsg, <<>>)         \* [][-1]
    ELSE IF HostError(matrix, "to_quaternion") # "" THEN
        Raise(HostError(matrix, "to_quaternion"), NoMsg, <<HostCall("to_quaternion")>>)
    ELSE SwingTwistElement(to_quaternion(matrix.m), axis,
                           LastChar(rotation_mode.s), driver)

\* The body of transform_matrix_element, after the validation.
ElementBody(matrix, transform_type, rotation_mode, driver) ==
    IF transform_type.t = "int" THEN Raise("TypeError", NoMsg, <<>>)    \* 5[-1]
    ELSE IF transform_type.t = "list" THEN Raise("IndexError", NoMsg, <<>>)  \* [][-1]
    ELSE
        LET axis == LastChar(transform_type.s)
        IN  IF StartsWith(transform_type.s, "LOC") THEN
                HostElement(matrix, "to_translation", to_translation(matrix.m),
                            XYZ_index(axis))
            ELSE IF StartsWith(transform_type.s, "ROT") THEN
                RotationElement(matrix, axis, rotation_mode, driver)
            ELSE IF StartsWith(transform_type.s, "SCALE") THEN
                HostElement(matrix, "to_scale", to_scale(matrix.m), XYZ_index(axis))
            ELSE ReturnNum(0, <<>>)

transform_matrix_element(matrix, transform_type, rotation_mode, driver) ==
    LET v == ElementValidation(STRICT, matrix, transform_type, rotation_mode, driver)
    IN  IF v.status = "raise" THEN v
        ELSE ElementBody(matrix, transform_type, rotation_mode, driver)

\* ----------------------------------------- flatten, compose, difference
\* sum((matrix.col[i].to_tuple() for i in range(4)), tuple())
transform_matrix_flatten(matrix) ==
    IF matrix.cls # "Matrix" THEN Raise("AttributeError", NoMsg, <<>>)
    ELSE IF NumCols(matrix) < 4 THEN Raise("IndexError", NoMsg, <<>>)
    ELSE
        LET r == NumRows(matrix)
        IN  ReturnMat("tuple",
                [k \in 1..(4 * r) |-> matrix.m[((k - 1) % r) + 1][((k - 1) \div r) + 1]],
                <<>>)

\* The matrix transform_matrix_compose builds from a Quaternion rotation.
ComposeMatrix(location, q, scale) ==
    LET diag == [i \in 1..3 |-> [j \in 1..3 |-> IF i = j THEN scale[i] ELSE 0]]
        m == To4x4(MatMul(QuatToMatrix(q), diag))
    IN  [i \in 1..4 |-> [j \in 1..4 |->
            IF j = 4 /\ i <= 3 THEN location[i] ELSE m[i][j]]]

\* A rotation argument: its class (tuple or Quaternion) and its components.
transform_matrix_compose(location, rotation, scale) ==
    IF rotation.cls # "Quaternion" THEN
        Raise("AttributeError", NoMsg, <<>>)     \* tuple has no to_matrix
    ELSE ReturnMat("Matrix", ComposeMatrix(location, rotation.q, scale),
                   <<HostCall("to_matrix")>>)

\* The angle between two quaternions as line 227-228 computes it.
RotationalDifference(q1, q2) ==
    LET c == QuatStar(QuatInverted(q1), q2)[1]
        angle == Abs(2 * Acos(c))
    IN  IF angle > Pi THEN 2 * Pi - angle ELSE angle

transform_target_rotational_difference(target_1, target_2) ==
    LET r1 == transform_matrix(target_1, Str("WORLD_SPACE"))
        r2 == transform_matrix(target_2, Str("WORLD_SPACE"))
    IN  IF r1.status = "raise" THEN r1
        ELSE IF r2.status = "raise" THEN
            Raise(r2.exc, r2.msg,
                  SubSeq(r1.events, 1, Len(r1.events) - 1)
                  \o <<HostCall("to_quaternion")>>
                  \o SubSeq(r2.events, 1, Len(r2.events) - 1))
        ELSE
            LET c == QuatStar(QuatInverted(to_quaternion(r1.mat)), to_quaternion(r2.mat))[1]
                pre == SubSeq(r1.events, 1, Len(r1.events) - 1)
                       \o <<HostCall("to_quaternion")>>
                       \o SubSeq(r2.events, 1, Len(r2.events) - 1)
                       \o <<HostCall("to_quaternion")>>
            IN  IF ~InTrigDomain(c) THEN Raise("ValueError", NoMsg, pre)
                ELSE ReturnNum(RotationalDifference(to_quaternion(r1.mat),
                                                    to_quaternion(r2.mat)), pre)

\* ------------------------------------------------------ inputs of calls
\* The unit quaternions with integer components.
Quaternions ==
    {<<1, 0, 0, 0>>, <<0, 1, 0, 0>>, <<0, 0, 1, 0>>, <<0, 0, 0, 1>>,
     <<-1, 0, 0, 0>>, <<0, -1, 0, 0>>, <<0, 0, -1, 0>>, <<0, 0, 0, -1>>}

SampleLocation(k) == IF k = 0 THEN <<0, 0, 0>> ELSE <<k, k + 1, k + 2>>

SampleScale(k) == IF k = 0 THEN <<1, 1, 1>> ELSE <<k + 1, k + 2, k + 3>>

Locations == {SampleLocation(k) : k \in 0..MaxSample}

Scales == {SampleScale(k) : k \in 0..MaxSample}

\* The rotations a matrix gives back: w >= 0.
Rotations == {r \in Quaternions : \A i \in 1..4 : r[i] >= 0}

\* The host's scene: a parent at <<1, 0, 2>> turned half round Z, and the
\* inverse of a rest pose at <<0, 3, 0>> turned half round X.
ParentWorld == ComposeMatrix(<<1, 0, 2>>, <<0, 0, 0, 1>>, <<1, 1, 1>>)
RestInverse == ComposeMatrix(<<0, 3, 0>>, <<0, 1, 0, 0>>, <<1, 1, 1>>)

NoneTarget ==
    [kind |-> "None", matrix_basis |-> <<>>, matrix_local |-> <<>>,
     matrix_world |-> <<>>, matrix_channel |-> <<>>, matrix |-> <<>>,
     arm_world |-> <<>>, rest_inv |-> <<>>]

\* A target that is neither an Object nor a PoseBone (a Mesh, say).
OtherTarget == [NoneTarget EXCEPT !.kind = "Other"]

\* An object whose own transform is basis, parented to the scene's parent.
ObjectTarget(basis) ==
    [NoneTarget EXCEPT !.kind = "Object", !.matrix_basis = basis,
        !.matrix_local = MatMul(RestInverse, basis),
        !.matrix_world = MatMul(ParentWorld, MatMul(RestInverse, basis))]

\* A pose bone whose channels are channel, in an armature at ParentWorld.
BoneTarget(channel) ==
    [NoneTarget EXCEPT !.kind = "PoseBone", !.matrix_channel = channel,
        !.matrix = MatMul(ParentWorld, channel),
        !.arm_world = ParentWorld, !.rest_inv = RestInverse]

SceneMatrices ==
    {ComposeMatrix(l, q, <<1, 1, 1>>) : l \in Locations, q \in Rotations}

Targets ==
    {NoneTarget, OtherTarget} \cup {ObjectTarget(m) : m \in SceneMatrices}
        \cup {BoneTarget(m) : m \in SceneMatrices}

SpaceArgs ==
    {Str(s) : s \in Range(TRANSFORM_SPACE_INDEX) \cup {"BOGUS_SPACE"}}
        \cup {IntValue, ListValue}

TypeArgs ==
    {Str(s) : s \in Range(TRANSFORM_TYPE_INDEX) \cup {"BOGUS_TYPE"}}
        \cup {IntValue, ListValue}

ModeArgs ==
    {Str(s) : s \in Range(ROTATION_MODE_INDEX) \cup {"BOGUS_MODE"}}
        \cup {IntValue, ListValue}

Matrix(m) == [cls |-> "Matrix", m |-> m]

\* The 4x4 matrices (every rotation of every sample location and scale), a
\* 3x3 and a 4-row 3-column matrix, and a flat tuple.
MatrixArgs ==
    {Matrix(ComposeMatrix(SampleLocation(k), q, SampleScale(k))) :
        k \in 0..MaxSample, q \in Rotations}
    \cup {Matrix(QuatToMatrix(<<0, 1, 0, 0>>)),
          Matrix([i \in 1..4 |-> [j \in 1..3 |-> Identity(4)[i][j]]]),
          [cls |-> "tuple", m |-> transform_matrix_flatten(Matrix(Identity(4))).mat]}

RotationArgs ==
    {[cls |-> "Quaternion", q |-> q] : q \in Quaternions}
        \cup {[cls |-> "tuple", q |-> <<1, 0, 0, 0>>]}

NoCall == [fn |-> "none"]

NoOutcome == Pass

\* ------------------------------------------------------- the state machine
\* The module as imported (lines 8-11).
Init ==
    /\ DEBUG = TRUE
    /\ STRICT = FALSE
    /\ LOGGER = "None"
    /\ LOG_ERRORS = TRUE
    /\ pc = "idle"
    /\ call = NoCall
    /\ outcome = NoOutcome

\* The application assigns one of the module's switches.
SetDEBUG ==
    /\ pc = "idle"
    /\ DEBUG' = ~DEBUG
    /\ UNCHANGED <<STRICT, LOGGER, LOG_ERRORS, pc, call, outcome>>

SetSTRICT ==
    /\ pc = "idle"
    /\ STRICT' = ~STRICT
    /\ UNCHANGED <<DEBUG, LOGGER, LOG_ERRORS, pc, call, outcome>>

SetLOGGER ==
    /\ pc = "idle"
    /\ LOGGER' = IF LOGGER = "None" THEN "Logger" ELSE "None"
    /\ UNCHANGED <<DEBUG, STRICT, LOG_ERRORS, pc, call, outcome>>

SetLOG_ERRORS ==
    /\ pc = "idle"
    /\ LOG_ERRORS' = ~LOG_ERRORS
    /\ UNCHANGED <<DEBUG, STRICT, LOGGER, pc, call, outcome>>

CallTransformMatrix ==
    /\ pc = "idle"
    /\ \E target \in Targets, transform_space \in SpaceArgs :
        /\ call' = [fn |-> "transform_matrix", target |-> target,
                    transform_space |-> transform_space]
        /\ outcome' = transform_matrix(target, transform_space)
    /\ pc' = "done"
    /\ UNCHANGED <<DEBUG, STRICT, LOGGER, LOG_ERRORS>>

CallTransformMatrixElement ==
    /\ pc = "idle"
    /\ \E matrix \in MatrixArgs, transform_type \in TypeArgs,
          rotation_mode \in ModeArgs, driver \in BOOLEAN :
        /\ call' = [fn |-> "transform_matrix_element", matrix |-> matrix,
                    transform_type |-> transform_type,
                    rotation_mode |-> rotation_mode, driver |-> driver]
        /\ outcome' = transform_matrix_element(matrix, transform_type,
                                               rotation_mode, driver)
    /\ pc' = "done"
    /\ UNCHANGED <<DEBUG, STRICT, LOGGER, LOG_ERRORS>>

CallTransformMatrixFlatten ==
    /\ pc = "idle"
    /\ \E matrix \in MatrixArgs :
        /\ call' = [fn |-> "transform_matrix_flatten", matrix |-> matrix]
        /\ outcome' = transform_matrix_flatten(matrix)
    /\ pc' = "done"
    /\ UNCHANGED <<DEBUG, STRICT, LOGGER, LOG_ERRORS>>

\* default: the call leaves every argument to its default value.
CallTransformMatrixCompose ==
    /\ pc = "idle"
    /\ \E location \in Locations, rotation \in RotationArgs, scale \in Scales,
          default \in BOOLEAN :
        /\ default =>
            /\ location = <<0, 0, 0>>
            /\ rotation = [cls |-> "tuple", q |-> <<1, 0, 0, 0>>]
            /\ scale = <<1, 1, 1>>
        /\ call' = [fn |-> "transform_matrix_compose", location |-> location,
                    rotation |-> rotation, scale |-> scale, default |-> default]
        /\ outcome' = transform_matrix_compose(location, rotation, scale)
    /\ pc' = "done"
    /\ UNCHANGED <<DEBUG, STRICT, LOGGER, LOG_ERRORS>>

CallRotationalDifference ==
    /\ pc = "idle"
    /\ \E target_1 \in Targets, target_2 \in Targets :
        /\ call' = [fn |-> "transform_target_rotational_difference",
                    target_1 |-> target_1, target_2 |-> target_2]
        /\ outcome' = transform_target_rotational_difference(target_1, target_2)
    /\ pc' = "done"
    /\ UNCHANGED <<DEBUG, STRICT, LOGGER, LOG_ERRORS>>

\* The caller takes the result (or catches the exception).
Return ==
    /\ pc = "done"
    /\ pc' = "idle"
    /\ call' = NoCall
    /\ outcome' = NoOutcome
    /\ UNCHANGED <<DEBUG, STRICT, LOGGER, LOG_ERRORS>>

Next ==
    \/ SetDEBUG
    \/ SetSTRICT
    \/ SetLOGGER
    \/ SetLOG_ERRORS
    \/ CallTransformMatrix
    \/ CallTransformMatrixElement
    \/ CallTransformMatrixFlatten
    \/ CallTransformMatrixCompose
    \/ CallRotationalDifference
    \/ Return

Spec == Init /\ [][Next]_vars

\* ================================================================ claims
Called(fn) == pc = "done" /\ call.fn = fn

ValidSpace(x) == x.t = "str" /\ x.s \in {"WORLD_SPACE", "TRANSFORM_SPACE", "LOCAL_SPACE"}

ValidType(x) ==
    x.t = "str" /\ x.s \in {"LOC_X", "LOC_Y", "LOC_Z", "ROT_W", "ROT_X", "ROT_Y",
                            "ROT_Z", "SCALE_X", "SCALE_Y", "SCALE_Z"}

ValidMode(x) ==
    x.t = "str" /\ x.s \in {"AUTO", "XYZ", "XZY", "YXZ", "YZX", "ZXY", "ZYX",
                            "QUATERNION", "SWING_TWIST_X", "SWING_TWIST_Y",
                            "SWING_TWIST_Z"}

Is4x4(matrix) == matrix.cls = "Matrix" /\ Len(matrix.m) = 4 /\ Len(matrix.m[1]) = 4

HostEvents == {i \in 1..Len(outcome.events) : outcome.events[i].ev = "host"}

LogEvents == {i \in 1..Len(outcome.events) : outcome.events[i].ev = "log"}

\* The outcome is the module's error exc about argument arg, saying problem
\* and showing value and the valid options; nothing is returned and no host
\* computation ran.
Rejected(exc, arg, problem, value, options) ==
    /\ outcome.status = "raise"
    /\ outcome.exc = exc
    /\ outcome.msg.arg = arg
    /\ outcome.msg.problem = problem
    /\ outcome.msg.value = value
    /\ outcome.msg.options = options
    /\ outcome.ty = "none"
    /\ HostEvents = {}

\* C1 (as stated): transform_matrix called with a string space outside the
\* three valid ones raises ValueError naming the value and listing the three
\* options, for every target kind; no matrix is returned.
C1_AsStated ==
    (Called("transform_matrix") /\ call.transform_space.t = "str"
        /\ ~ValidSpace(call.transform_space))
    => Rejected("ValueError", "transform_space", "not found",
                call.transform_space.s,
                <<"WORLD_SPACE", "TRANSFORM_SPACE", "LOCAL_SPACE">>)

\* C1 (amended): with DEBUG on, transform_matrix called with a string space
\* outside the three valid ones raises ValueError naming the value and
\* listing the three options and returns no matrix, for a bone, an object
\* and a null target, and for a target of another kind unless STRICT is on
\* (the target assertion then fails first).
C1_InvalidSpaceRejected ==
    (Called("transform_matrix") /\ call.transform_space.t = "str"
        /\ ~ValidSpace(call.transform_space)
        /\ DEBUG /\ ~(STRICT /\ call.target.kind = "Other"))
    => Rejected("ValueError", "transform_space", "not found",
                call.transform_space.s,
                <<"WORLD_SPACE", "TRANSFORM_SPACE", "LOCAL_SPACE">>)

\* A null target and a bogus space: the error, not the identity default.
C1_Witness ==
    /\ Called("transform_matrix")
    /\ call.target.kind = "None"
    /\ call.transform_space = Str("BOGUS_SPACE")
    /\ outcome.exc = "ValueError"
    /\ outcome.msg.value = "BOGUS_SPACE"

\* C3 (as stated): a non-string space, component or rotation mode raises
\* TypeError, before any other validation.
C3_AsStated ==
    /\ (Called("transform_matrix") /\ call.transform_space.t # "str")
        => (outcome.status = "raise" /\ outcome.exc = "TypeError")
    /\ (Called("transform_matrix_element")
            /\ (call.transform_type.t # "str" \/ call.rotation_mode.t # "str"))
        => (outcome.status = "raise" /\ outcome.exc = "TypeError")

\* C3 (amended): with DEBUG on, a non-string space raises TypeError naming
\* its class, before the membership check (only STRICT's target assertion
\* comes earlier).  transform_matrix_element has no such check: with STRICT
\* off a non-string component or mode is met by the membership test, after
\* the matrix shape check (ValueError "not found" for a hashable value, the
\* test's own unlogged TypeError for an unhashable one); with STRICT on it
\* fails the type assertion.
C3_TypeChecks ==
    /\ (Called("transform_matrix") /\ call.transform_space.t # "str"
            /\ DEBUG /\ ~(STRICT /\ call.target.kind = "Other"))
        => Rejected("TypeError", "transform_space", "expected str",
                    call.transform_space.t, <<>>)
    /\ (Called("transform_matrix_element") /\ DEBUG /\ STRICT
            /\ (call.transform_type.t # "str" \/ call.rotation_mode.t # "str"))
        => (outcome.exc = "AssertionError" /\ Len(outcome.events) = 1)
    /\ (Called("transform_matrix_element") /\ DEBUG /\ ~STRICT
            /\ (call.transform_type.t # "str" \/ call.rotation_mode.t # "str"))
        => IF Len(call.matrix.m) # 4 THEN
               outcome.exc = "ValueError" /\ outcome.msg.arg = "matrix"
           ELSE IF call.transform_type.t = "int" THEN
               Rejected("ValueError", "transform_type", "not found", "5",
                        TRANSFORM_TYPE_INDEX)
           ELSE IF call.transform_type.t = "list" THEN
               outcome.exc = "TypeError" /\ outcome.msg = NoMsg /\ LogEvents = {}
           ELSE IF ~ValidType(call.transform_type) THEN
               outcome.exc = "ValueError" /\ outcome.msg.arg = "transform_type"
           ELSE IF call.rotation_mode.t = "int" THEN
               Rejected("ValueError", "rotation_mode", "not found", "5",
                        ROTATION_MODE_INDEX)
           ELSE outcome.exc = "TypeError" /\ outcome.msg = NoMsg /\ LogEvents = {}

\* A non-string component met by the membership check, not by a type check.
C3_Witness ==
    /\ Called("transform_matrix_element")
    /\ DEBUG /\ ~STRICT
    /\ Len(call.matrix.m) = 4
    /\ call.transform_type.t = "int"
    /\ outcome.exc = "ValueError"
    /\ outcome.msg.arg = "transform_type"

\* The matrix the claim C5 names for a target and a valid space.
SelectedMatrix(target, space) ==
    CASE target.kind = "PoseBone" /\ space = "TRANSFORM_SPACE" -> target.matrix_channel
      [] target.kind = "PoseBone" /\ space = "WORLD_SPACE" ->
            convert_space(target, target.matrix, "WORLD")
      [] target.kind = "PoseBone" /\ space = "LOCAL_SPACE" ->
            convert_space(target, target.matrix, "LOCAL")
      [] target.kind = "Object" /\ space = "TRANSFORM_SPACE" -> target.matrix_basis
      [] target.kind = "Object" /\ space = "WORLD_SPACE" -> target.matrix_world
      [] target.kind = "Object" /\ space = "LOCAL_SPACE" -> target.matrix_local
      [] OTHER -> << <<1, 0, 0, 0>>, <<0, 1, 0, 0>>, <<0, 0, 1, 0>>, <<0, 0, 0, 1>> >>

\* C5 (as stated): for every valid space transform_matrix returns the matrix
\* selected by target kind and space, and the identity, without error, for a
\* null target or a target of any other kind.
C5_AsStated ==
    (Called("transform_matrix") /\ ValidSpace(call.transform_space))
    => /\ outcome.status = "return"
       /\ outcome.ty = "Matrix"
       /\ outcome.mat = SelectedMatrix(call.target, call.transform_space.s)

\* C5 (amended): for every valid space transform_matrix returns the matrix
\* selected by target kind and space, and the identity for a null target;
\* for a target of another kind it returns the identity unless DEBUG and
\* STRICT are both on, when the target assertion fails instead.
C5_SelectedMatrix ==
    (Called("transform_matrix") /\ ValidSpace(call.transform_space))
    => IF DEBUG /\ STRICT /\ call.target.kind = "Other" THEN
           outcome.status = "raise" /\ outcome.exc = "AssertionError"
       ELSE /\ outcome.status = "return"
            /\ outcome.ty = "Matrix"
            /\ outcome.mat = SelectedMatrix(call.target, call.transform_space.s)

\* An object asked for its local matrix, which differs from its world and
\* basis matrices.
C5_Witness ==
    /\ Called("transform_matrix")
    /\ call.target.kind = "Object"
    /\ call.transform_space = Str("LOCAL_SPACE")
    /\ outcome.mat = call.target.matrix_local
    /\ call.target.matrix_local # call.target.matrix_world
    /\ call.target.matrix_local # call.target.matrix_basis

\* The module's message for a matrix of n rows.
SizeText(n) == ToString(n) \o "x" \o ToString(n)

\* C2 (as stated): transform_matrix_element validates before computing, in
\* the order matrix shape, component, rotation mode: a matrix that is not
\* 4x4 raises ValueError whatever the other arguments are, then an unknown
\* component, then an unknown rotation mode for every channel; in each case
\* nothing is returned and no decomposition step has run.
C2_AsStated ==
    Called("transform_matrix_element")
    => IF ~Is4x4(call.matrix) THEN
           Rejected("ValueError", "matrix", "expected 4x4",
                    SizeText(Len(call.matrix.m)), <<>>)
       ELSE IF call.transform_type.t = "str" /\ ~ValidType(call.transform_type) THEN
           Rejected("ValueError", "transform_type", "not found",
                    call.transform_type.s, TRANSFORM_TYPE_INDEX)
       ELSE IF ValidType(call.transform_type) /\ call.rotation_mode.t = "str"
               /\ ~ValidMode(call.rotation_mode) THEN
           Rejected("ValueError", "rotation_mode", "not found",
                    call.rotation_mode.s, ROTATION_MODE_INDEX)
       ELSE TRUE

\* C2 (amended): with DEBUG on, and STRICT off or every argument of its
\* asserted type, transform_matrix_element validates before computing, in
\* the order matrix length, component, rotation mode: a matrix whose length
\* (row count) is not 4 raises ValueError whatever the other arguments are,
\* then a component that is not a key of the table, then such a rotation
\* mode for every channel; in each case nothing is returned and no
\* decomposition step has run.
C2_ValidationOrder ==
    (Called("transform_matrix_element") /\ DEBUG
        /\ (STRICT => (call.matrix.cls = "Matrix" /\ call.transform_type.t = "str"
                       /\ call.rotation_mode.t = "str")))
    => IF Len(call.matrix.m) # 4 THEN
           Rejected("ValueError", "matrix", "expected 4x4",
                    SizeText(Len(call.matrix.m)), <<>>)
       ELSE IF call.transform_type.t \in {"str", "int"}
               /\ ~ValidType(call.transform_type) THEN
           Rejected("ValueError", "transform_type", "not found",
                    call.transform_type.s, TRANSFORM_TYPE_INDEX)
       ELSE IF ValidType(call.transform_type)
               /\ call.rotation_mode.t \in {"str", "int"}
               /\ ~ValidMode(call.rotation_mode) THEN
           Rejected("ValueError", "rotation_mode", "not found",
                    call.rotation_mode.s, ROTATION_MODE_INDEX)
       ELSE TRUE

\* A 3x3 matrix with an unknown component and an unknown mode: the matrix
\* is what the error is about.
C2_Witness ==
    /\ Called("transform_matrix_element")
    /\ DEBUG
    /\ Len(call.matrix.m) = 3
    /\ call.transform_type = Str("BOGUS_TYPE")
    /\ call.rotation_mode = Str("BOGUS_MODE")
    /\ outcome.exc = "ValueError"
    /\ outcome.msg.arg = "matrix"
    /\ outcome.msg.value = "3x3"

\* C4 (as stated): once the arguments pass the validation the call cannot
\* fail: for every 4x4 matrix, valid component, valid rotation mode and
\* driver value it returns one scalar (the only error allowed is the domain
\* error of arccos/arcsin in the swing-twist driver case, which the model's
\* unit quaternions never cause).
C4_AsStated ==
    (Called("transform_matrix_element") /\ Is4x4(call.matrix)
        /\ ValidType(call.transform_type) /\ ValidMode(call.rotation_mode))
    => (outcome.status = "return" /\ outcome.ty = "num")

\* The axis letter of a rotation channel, "" for the other channels.
RotationAxis(x) ==
    CASE x = Str("ROT_W") -> "W" [] x = Str("ROT_X") -> "X"
      [] x = Str("ROT_Y") -> "Y" [] x = Str("ROT_Z") -> "Z" [] OTHER -> ""

\* The twist axis of a swing-twist mode, "" for the other modes.
TwistAxis(x) ==
    CASE x = Str("SWING_TWIST_X") -> "X" [] x = Str("SWING_TWIST_Y") -> "Y"
      [] x = Str("SWING_TWIST_Z") -> "Z" [] OTHER -> ""

\* The call is a swing-twist decomposition of a rotation channel other than
\* the twist axis.
SwingCase ==
    /\ RotationAxis(call.transform_type) # ""
    /\ TwistAxis(call.rotation_mode) # ""
    /\ RotationAxis(call.transform_type) # TwistAxis(call.rotation_mode)

\* The matrix passes the validation and has a rotation: it is 4x4, or 3x3
\* with the validation off.
Decomposable ==
    /\ call.matrix.cls = "Matrix"
    /\ Len(call.matrix.m) = Len(call.matrix.m[1])
    /\ Len(call.matrix.m) = 4 \/ (Len(call.matrix.m) = 3 /\ ~DEBUG)

\* C6: for a rotation channel and a SWING_TWIST mode the result is the twist
\* angle when the channel's axis is the twist axis, for either driver value;
\* otherwise it is the swing quaternion's component for the axis, raw when
\* driver is false, and 2*arccos(value) for W or 2*arcsin(value) for X, Y, Z
\* when driver is true.  In no other case does driver change the result.
C6_SwingTwist ==
    Called("transform_matrix_element")
    => LET axis == RotationAxis(call.transform_type)
           twist_axis == TwistAxis(call.rotation_mode)
           st == to_swing_twist(to_quaternion(call.matrix.m), twist_axis)
           component ==
               st[1][CASE axis = "W" -> 1 [] axis = "X" -> 2
                       [] axis = "Y" -> 3 [] OTHER -> 4]
           swing == SwingCase /\ Decomposable
       IN  /\ (Decomposable /\ axis # "" /\ axis = twist_axis)
                => (outcome.status = "return" /\ outcome.num = st[2])
           /\ (swing /\ ~call.driver)
                => (outcome.status = "return" /\ outcome.num = component)
           /\ (swing /\ call.driver /\ axis = "W")
                => (outcome.status = "return" /\ outcome.num = 2 * Acos(component))
           /\ (swing /\ call.driver /\ axis # "W")
                => (outcome.status = "return" /\ outcome.num = 2 * Asin(component))
           /\ ~SwingCase
                => outcome = transform_matrix_element(call.matrix,
                       call.transform_type, call.rotation_mode, ~call.driver)

\* The Y swing component of a half-turn about Y, twist axis X, as a driver:
\* 2*arcsin(1), not the raw component 1.
C6_Witness ==
    /\ Called("transform_matrix_element")
    /\ Is4x4(call.matrix)
    /\ call.transform_type = Str("ROT_Y")
    /\ call.rotation_mode = Str("SWING_TWIST_X")
    /\ call.driver
    /\ to_quaternion(call.matrix.m) = <<0, 0, 1, 0>>
    /\ outcome.num = 180

\* C7 (as stated): for every location, unit quaternion and scale, the
\* default arguments included, the matrix transform_matrix_compose returns
\* gives back the location, the four quaternion components and the scale
\* through transform_matrix_element (QUATERNION mode), and its flattened
\* form holds the location at positions 12, 13, 14.
C7_AsStated ==
    Called("transform_matrix_compose")
    => /\ outcome.status = "return"
       /\ LET composed == Matrix(outcome.mat)
              Channel(c) ==
                  transform_matrix_element(composed, Str(c), Str("QUATERNION"), FALSE).num
              flat == transform_matrix_flatten(composed).mat
          IN  /\ <<Channel("LOC_X"), Channel("LOC_Y"), Channel("LOC_Z")>> = call.location
              /\ <<Channel("ROT_W"), Channel("ROT_X"), Channel("ROT_Y"), Channel("ROT_Z")>>
                    = call.rotation.q
              /\ <<Channel("SCALE_X"), Channel("SCALE_Y"), Channel("SCALE_Z")>> = call.scale
              /\ Len(flat) = 16
              /\ <<flat[13], flat[14], flat[15]>> = call.location

\* C8 (as stated): transform_target_rotational_difference(t, t) returns 0.0
\* for every target and every world rotation of it.
C8_AsStated ==
    (Called("transform_target_rotational_difference")
        /\ call.target_1 = call.target_2)
    => (outcome.status = "return" /\ outcome.num = 0)

\* The call ended in a validation error: with the validation on, a
\* ValueError, or the TypeError of transform_matrix, raised before any host
\* computation.  (A failed STRICT assertion is not one, nor is the TypeError
\* Python itself raises when the membership test hashes a list.)
ValidationError ==
    /\ DEBUG
    /\ outcome.status = "raise"
    /\ HostEvents = {}
    /\ \/ outcome.exc = "ValueError"
       \/ outcome.exc = "TypeError" /\ call.fn = "transform_matrix"

RightTypes ==
    \/ /\ call.fn = "transform_matrix"
       /\ call.target.kind \in {"None", "Object", "PoseBone"}
       /\ call.transform_space.t = "str"
    \/ /\ call.fn = "transform_matrix_element"
       /\ call.matrix.cls = "Matrix"
       /\ call.transform_type.t = "str"
       /\ call.rotation_mode.t = "str"

\* The outcome the call would have had with STRICT set to strict.
OutcomeUnder(strict) ==
    IF call.fn = "transform_matrix" THEN
        LET v == MatrixValidation(strict, call.target, call.transform_space)
        IN  IF v.status = "raise" THEN v
            ELSE MatrixBody(call.target, call.transform_space)
    ELSE
        LET v == ElementValidation(strict, call.matrix, call.transform_type,
                                   call.rotation_mode, call.driver)
        IN  IF v.status = "raise" THEN v
            ELSE ElementBody(call.matrix, call.transform_type,
                             call.rotation_mode, call.driver)

\* The call has an invalid space, matrix size, component or rotation mode.
InvalidArgument(sizeOK) ==
    \/ /\ call.fn = "transform_matrix"
       /\ call.transform_space.t = "str" /\ ~ValidSpace(call.transform_space)
    \/ /\ call.fn = "transform_matrix_element"
       /\ \/ ~sizeOK
          \/ call.transform_type.t = "str" /\ ~ValidType(call.transform_type)
          \/ call.rotation_mode.t = "str" /\ ~ValidMode(call.rotation_mode)

\* C10 (as stated): for every setting of the switches an invalid space,
\* component, rotation mode or matrix size raises; STRICT never changes the
\* outcome of a call whose arguments have the right types.
C10_AsStated ==
    (pc = "done" /\ call.fn \in {"transform_matrix", "transform_matrix_element"})
    => /\ InvalidArgument(Is4x4(call.matrix)) => outcome.status = "raise"
       /\ RightTypes => (OutcomeUnder(TRUE) = outcome /\ OutcomeUnder(FALSE) = outcome)

\* C10 (amended): with DEBUG on, for every setting of STRICT, LOG_ERRORS and
\* LOGGER, an invalid space, component or rotation mode, or a matrix whose
\* length is not 4, raises before any computation (with DEBUG off none of
\* the checks runs); STRICT never changes the outcome of a call whose
\* arguments have the right types.
C10_ChecksUnderDebug ==
    (pc = "done" /\ call.fn \in {"transform_matrix", "transform_matrix_element"})
    => /\ (DEBUG /\ InvalidArgument(Len(call.matrix.m) = 4))
            => (outcome.status = "raise" /\ HostEvents = {})
       /\ RightTypes => (OutcomeUnder(TRUE) = outcome /\ OutcomeUnder(FALSE) = outcome)

\* STRICT off and an unknown component on a 4x4 matrix: still rejected.
C10_Witness ==
    /\ Called("transform_matrix_element")
    /\ DEBUG /\ ~STRICT
    /\ Is4x4(call.matrix)
    /\ call.transform_type = Str("BOGUS_TYPE")
    /\ ValidMode(call.rotation_mode)
    /\ outcome.status = "raise"
    /\ outcome.exc = "ValueError"

====
